---- MODULE Spec2Model ----
(***************************************************************************)
(* Model of the Gotham-picks odds proxy: the three serverless handlers     *)
(* api/odds.js, api/events/[id].js and its filtering variant               *)
(* (src/unnamed/part_000), each with its module-level cache _mem, its key  *)
(* derivation, its TTL computation and its response transformation.        *)
(*                                                                         *)
(* Strings that the code concatenates, escapes or parses (query values,    *)
(* cache keys, the ttl parameter, the credential) are sequences of         *)
(* one-character strings.  JSON documents are trees of tagged records.     *)
(* Time is Date.now() in milliseconds.                                     *)
(***************************************************************************)
EXTENDS Integers, Sequences, FiniteSets, TLC

VARIABLES now, handler, mem, reqs, ttlProbe, keyProbe, filterProbe

vars == <<now, handler, mem, reqs, ttlProbe, keyProbe, filterProbe>>

(***************************************************************************)
(* Bounds of the model.                                                    *)
(***************************************************************************)
MaxReqs == 2

(***************************************************************************)
(* Character strings.                                                      *)
(***************************************************************************)
s_sport == <<"s","p","o","r","t">>

s_regions == <<"r","e","g","i","o","n","s">>

s_markets == <<"m","a","r","k","e","t","s">>

s_oddsFormat == <<"o","d","d","s","F","o","r","m","a","t">>

s_ttl == <<"t","t","l">>

s_id == <<"i","d">>

s_apiKey == <<"a","p","i","K","e","y">>

s_odds == <<"o","d","d","s">>

s_events == <<"e","v","e","n","t","s","/">>

\* the destructuring defaults of the handlers
d_sport == <<"a","m","e","r","i","c","a","n","f","o","o","t","b","a","l","l","_","n","f","l">>

d_regions == <<"u","s">>

d_oddsFormat == <<"a","m","e","r","i","c","a","n">>

d_marketsOdds == <<"h","2","h",",","s","p","r","e","a","d","s",",","t","o","t","a","l","s">>

d_marketsEvent ==
    <<"p","l","a","y","e","r","_","p","a","s","s","_","y","d","s",",",
      "p","l","a","y","e","r","_","p","a","s","s","_","t","d","s",",",
      "p","l","a","y","e","r","_","r","u","s","h","_","y","d","s",",",
      "p","l","a","y","e","r","_","r","e","c","e","p","t","i","o","n","_","y","d","s",",",
      "p","l","a","y","e","r","_","a","n","y","t","i","m","e","_","t","d">>

(***************************************************************************)
(* Query objects: req.query and the object literals handed to cacheKey.    *)
(* An object is the sequence of its members in insertion order, one member *)
(* per name; a member is [k |-> name, v |-> value].  A name is a character *)
(* string; a value is a character string or, for a parameter given more    *)
(* than once (?ttl=5&ttl=6), the array of its character strings.           *)
(***************************************************************************)
QStr(s) == [arr |-> FALSE, s |-> s, list |-> <<>>]

QArr(list) == [arr |-> TRUE, s |-> <<>>, list |-> list]

\* a member whose value is the string v
Member(k, v) == [k |-> k, v |-> QStr(v)]

\* a member whose value is the array of the strings of list
ArrayMember(k, list) == [k |-> k, v |-> QArr(list)]

Has(q, k) == \E i \in 1..Len(q) : q[i].k = k

Get(q, k) == q[CHOOSE i \in 1..Len(q) : q[i].k = k].v

\* const { k = dflt } = req.query
GetOr(q, k, dflt) == IF Has(q, k) THEN Get(q, k) ELSE QStr(dflt)

\* delete q[k]
Delete(q, k) == SelectSeq(q, LAMBDA m : m.k # k)

\* Array.prototype.join(','), for an array of strings
RECURSIVE Join(_)
Join(list) ==
    IF list = <<>> THEN <<>>
    ELSE Head(list) \o (IF Tail(list) = <<>> THEN <<>> ELSE <<",">> \o Join(Tail(list)))

\* String(v), as a template literal and Number() read a value: an array is
\* its elements joined by commas
ToStr(v) == IF v.arr THEN Join(v.list) ELSE v.s

\* req.query itself: an object, or undefined
ReqQuery(q) == [defined |-> TRUE, obj |-> q]

NoReqQuery == [defined |-> FALSE, obj |-> <<>>]

\* req.query || {}
QueryOrEmpty(rq) == IF rq.defined THEN rq.obj ELSE <<>>

(***************************************************************************)
(* TTL: Math.max(10, Number(ttl || DEFAULT_TTL) | 0)                       *)
(***************************************************************************)
DEFAULT_TTL == 60

TTL_FLOOR == 10

Limb == 65536

HalfLimb == 32768

Digits == {"0","1","2","3","4","5","6","7","8","9"}

DigitVal(c) ==
    CASE c = "0" -> 0 [] c = "1" -> 1 [] c = "2" -> 2 [] c = "3" -> 3
      [] c = "4" -> 4 [] c = "5" -> 5 [] c = "6" -> 6 [] c = "7" -> 7
      [] c = "8" -> 8 [] c = "9" -> 9
      [] c \in {"a", "A"} -> 10 [] c \in {"b", "B"} -> 11 [] c \in {"c", "C"} -> 12
      [] c \in {"d", "D"} -> 13 [] c \in {"e", "E"} -> 14 [] c \in {"f", "F"} -> 15

\* A character is a string of one character; a character TLA+ cannot write
\* is the string of its code point ("U+00A0").  StrWhiteSpaceChar: the white
\* space and the line terminators that Number() strips from both ends.
StrWhiteSpaceChar ==
    { " ", "\t", "\n", "\r", "\f", "U+000B", "U+00A0", "U+FEFF", "U+2028", "U+2029",
      "U+1680", "U+2000", "U+2001", "U+2002", "U+2003", "U+2004", "U+2005", "U+2006",
      "U+2007", "U+2008", "U+2009", "U+200A", "U+202F", "U+205F", "U+3000" }

\* A JS number as far as `| 0` reads it: NaN, an infinity, or a sign and the
\* integer part of the magnitude modulo 2^32, in two 16-bit limbs
\* (hi * 65536 + lo).
NaN == [nan |-> TRUE, inf |-> FALSE, neg |-> FALSE, hi |-> 0, lo |-> 0]

Infinity(neg) == [nan |-> FALSE, inf |-> TRUE, neg |-> neg, hi |-> 0, lo |-> 0]

Num(neg, hi, lo) == [nan |-> FALSE, inf |-> FALSE, neg |-> neg, hi |-> hi, lo |-> lo]

RECURSIVE TrimLeft(_)
TrimLeft(s) == IF s # <<>> /\ Head(s) \in StrWhiteSpaceChar THEN TrimLeft(Tail(s)) ELSE s

RECURSIVE TrimRight(_)
TrimRight(s) ==
    IF s # <<>> /\ s[Len(s)] \in StrWhiteSpaceChar
    THEN TrimRight(SubSeq(s, 1, Len(s) - 1))
    ELSE s

AllDigits(s) == \A i \in 1..Len(s) : s[i] \in Digits

\* a sequence without its leading elements equal to z
RECURSIVE StripLeading(_, _)
StripLeading(s, z) == IF s # <<>> /\ Head(s) = z THEN StripLeading(Tail(s), z) ELSE s

Zeros(n, z) == [i \in 1..n |-> z]

\* the decimal digits ds, carrying in r from the left, divided by two:
\* the digits of the quotient and the remainder
RECURSIVE HalfDigits(_, _)
HalfDigits(ds, r) ==
    IF ds = <<>> THEN [q |-> <<>>, r |-> r]
    ELSE LET cur  == r * 10 + DigitVal(Head(ds))
             rest == HalfDigits(Tail(ds), cur % 2)
         IN  [q |-> <<ToString(cur \div 2)>> \o rest.q, r |-> rest.r]

\* the bits, most significant first, of the integer with decimal digits ds
RECURSIVE DecToBits(_)
DecToBits(ds) ==
    LET d == StripLeading(ds, "0")
        h == HalfDigits(d, 0)
    IN  IF d = <<>> THEN <<>> ELSE DecToBits(h.q) \o <<h.r>>

\* the bits of one digit of a literal of radix 2^w
DigitBits(c, w) == [i \in 1..w |-> (DigitVal(c) \div (2 ^ (w - i))) % 2]

\* the bits of the integer written with the digits ds in radix 2^w
RECURSIVE RadixToBits(_, _)
RadixToBits(ds, w) ==
    IF ds = <<>> THEN <<>> ELSE DigitBits(Head(ds), w) \o RadixToBits(Tail(ds), w)

\* the fraction digits fs times m: the carry out and the digits left
RECURSIVE TimesDigits(_, _)
TimesDigits(fs, m) ==
    IF fs = <<>> THEN [c |-> 0, ds |-> <<>>]
    ELSE LET rest == TimesDigits(Tail(fs), m)
             cur  == m * DigitVal(Head(fs)) + rest.c
         IN  [c |-> cur \div 10, ds |-> <<ToString(cur % 10)>> \o rest.ds]

\* the bits of the fraction are taken this many at a time
ChunkBits == 6

\* the first n bits of the binary expansion of the fraction 0.fs, and the
\* digits of what is left of it
RECURSIVE FracBits(_, _)
FracBits(fs, n) ==
    IF n = 0 THEN [bits |-> <<>>, rest |-> fs]
    ELSE LET w    == IF n >= ChunkBits THEN ChunkBits ELSE 1
             d    == TimesDigits(fs, 2 ^ w)
             more == FracBits(d.ds, n - w)
         IN  [bits |-> [i \in 1..w |-> (d.c \div (2 ^ (w - i))) % 2] \o more.bits,
              rest |-> more.rest]

\* bits + 1
RECURSIVE BitsInc(_)
BitsInc(bits) ==
    IF bits = <<>> THEN <<1>>
    ELSE IF bits[Len(bits)] = 0 THEN SubSeq(bits, 1, Len(bits) - 1) \o <<1>>
    ELSE BitsInc(SubSeq(bits, 1, Len(bits) - 1)) \o <<0>>

\* the value of at most 16 bits
RECURSIVE BitsVal(_)
BitsVal(bits) ==
    IF bits = <<>> THEN 0
    ELSE 2 * BitsVal(SubSeq(bits, 1, Len(bits) - 1)) + bits[Len(bits)]

MantissaBits == 53

\* The integer part of the double nearest to ib + 0.fs (ties to even), as
\* bits: ib the bits of the integer part, fs the decimal digits of the
\* fraction.  A double keeps 53 significant bits.
RoundToDouble(ib, fs) ==
    LET L == Len(ib)
    IN  IF L > MantissaBits
        THEN LET kept == SubSeq(ib, 1, MantissaBits)
                 r    == SubSeq(ib, MantissaBits + 1, L)
                 up   == /\ r[1] = 1
                         /\ \/ \E i \in 2..Len(r) : r[i] = 1
                            \/ StripLeading(fs, "0") # <<>>
                            \/ kept[MantissaBits] = 1
             IN  (IF up THEN BitsInc(kept) ELSE kept) \o Zeros(L - MantissaBits, 0)
        ELSE IF StripLeading(fs, "0") = <<>> THEN ib
        ELSE LET k  == MantissaBits - L
                 fb == FracBits(fs, k + 1)
                 up == /\ \A i \in 1..(k + 1) : fb.bits[i] = 1
                       /\ \/ k >= 1
                          \/ StripLeading(fb.rest, "0") # <<>>
                          \/ ib[L] = 1
             IN  IF up THEN BitsInc(ib) ELSE ib

\* sign and integer bits as a number: the low 32 bits in two limbs
NumOfBits(neg, bits) ==
    LET b  == StripLeading(bits, 0)
        lo == SubSeq(b, IF Len(b) > 16 THEN Len(b) - 15 ELSE 1, Len(b))
        hi == IF Len(b) > 16
              THEN SubSeq(b, IF Len(b) > 32 THEN Len(b) - 31 ELSE 1, Len(b) - 16)
              ELSE <<>>
    IN  IF Len(b) > 1024 THEN Infinity(neg) ELSE Num(neg, BitsVal(hi), BitsVal(lo))

\* the least integer that Number() reads as Infinity: 2^1024 - 2^970
InfinityFrom ==
    << "1","7","9","7","6","9","3","1","3","4","8","6","2","3","1","5","8","0","7","9",
       "3","7","2","8","9","7","1","4","0","5","3","0","3","4","1","5","0","7","9","9",
       "3","4","1","3","2","7","1","0","0","3","7","8","2","6","9","3","6","1","7","3",
       "7","7","8","9","8","0","4","4","4","9","6","8","2","9","2","7","6","4","7","5",
       "0","9","4","6","6","4","9","0","1","7","9","7","7","5","8","7","2","0","7","0",
       "9","6","3","3","0","2","8","6","4","1","6","6","9","2","8","8","7","9","1","0",
       "9","4","6","5","5","5","5","4","7","8","5","1","9","4","0","4","0","2","6","3",
       "0","6","5","7","4","8","8","6","7","1","5","0","5","8","2","0","6","8","1","9",
       "0","8","9","0","2","0","0","0","7","0","8","3","8","3","6","7","6","2","7","3",
       "8","5","4","8","4","5","8","1","7","7","1","1","5","3","1","7","6","4","4","7",
       "5","7","3","0","2","7","0","0","6","9","8","5","5","5","7","1","3","6","6","9",
       "5","9","6","2","2","8","4","2","9","1","4","8","1","9","8","6","0","8","3","4",
       "9","3","6","4","7","5","2","9","2","7","1","9","0","7","4","1","6","8","4","4",
       "4","3","6","5","5","1","0","7","0","4","3","4","2","7","1","1","5","5","9","6",
       "9","9","5","0","8","0","9","3","0","4","2","8","8","0","1","7","7","9","0","4",
       "1","7","4","4","9","7","7","9","2" >>

\* the digit string a is at least the digit string b of the same length
RECURSIVE DigitsGeq(_, _)
DigitsGeq(a, b) ==
    IF a = <<>> THEN TRUE
    ELSE IF DigitVal(Head(a)) # DigitVal(Head(b)) THEN DigitVal(Head(a)) > DigitVal(Head(b))
    ELSE DigitsGeq(Tail(a), Tail(b))

\* the lesser of the value of the digits of an exponent, from acc, and lim
RECURSIVE ExponentVal(_, _, _)
ExponentVal(ds, acc, lim) ==
    IF ds = <<>> \/ acc >= lim THEN (IF acc >= lim THEN lim ELSE acc)
    ELSE ExponentVal(Tail(ds), acc * 10 + DigitVal(Head(ds)), lim)

\* the decimal literal with integer digits ip, fraction digits fp and exponent
\* e: the point is moved by e places and the value rounded to a double.  An
\* integer part of more than 26 digits is a double that is a multiple of 2^32.
DecimalValue(neg, ip, fp, e) ==
    LET ds == ip \o fp
        sd == StripLeading(ds, "0")
        p  == Len(ip) + e - (Len(ds) - Len(sd))
        I  == IF p <= 0 THEN <<>>
              ELSE IF p >= Len(sd) THEN sd \o Zeros(p - Len(sd), "0")
              ELSE SubSeq(sd, 1, p)
        F  == IF p < 0 THEN <<"0">>
              ELSE IF p >= Len(sd) THEN <<>>
              ELSE SubSeq(sd, p + 1, Len(sd))
    IN  IF sd = <<>> THEN Num(neg, 0, 0)
        ELSE IF p > 309 THEN Infinity(neg)
        ELSE IF p = 309 /\ DigitsGeq(I, InfinityFrom) THEN Infinity(neg)
        ELSE IF p > 26 THEN Num(neg, 0, 0)
        ELSE NumOfBits(neg, RoundToDouble(DecToBits(I), F))

\* StrUnsignedDecimalLiteral without Infinity: digits [. digits] [exponent],
\* or . digits [exponent].  The exponent is read in full up to 400 more than
\* the number of digits of the mantissa; every exponent from there on moves
\* the point to where it gives the same double, Infinity (10^400 and more) or
\* 0 (below 10^-400) for a mantissa that is not 0.
DecimalLiteral(neg, u) ==
    LET es   == {i \in 1..Len(u) : u[i] \in {"e", "E"}}
        ePos == IF es = {} THEN Len(u) + 1 ELSE CHOOSE i \in es : \A j \in es : i <= j
        m    == SubSeq(u, 1, ePos - 1)
        x    == SubSeq(u, ePos + 1, Len(u))
        xNeg == x # <<>> /\ Head(x) = "-"
        xd   == IF x # <<>> /\ Head(x) \in {"+", "-"} THEN Tail(x) ELSE x
        dots == {i \in 1..Len(m) : m[i] = "."}
        dPos == IF dots = {} THEN Len(m) + 1 ELSE CHOOSE i \in dots : \A j \in dots : i <= j
        ip   == SubSeq(m, 1, dPos - 1)
        fp   == SubSeq(m, dPos + 1, Len(m))
        ev   == ExponentVal(StripLeading(xd, "0"), 0, Len(ip) + Len(fp) + 400)
    IN  IF /\ AllDigits(ip) /\ AllDigits(fp) /\ Len(ip) + Len(fp) > 0
           /\ (es # {} => (xd # <<>> /\ AllDigits(xd)))
        THEN DecimalValue(neg, ip, fp, IF es = {} THEN 0 ELSE IF xNeg THEN 0 - ev ELSE ev)
        ELSE NaN

s_Infinity == <<"I","n","f","i","n","i","t","y">>

\* the digits of a literal of radix 2^w
RadixDigits(w) ==
    IF w = 1 THEN {"0", "1"}
    ELSE IF w = 3 THEN {"0","1","2","3","4","5","6","7"}
    ELSE Digits \cup {"a","b","c","d","e","f","A","B","C","D","E","F"}

\* 0x, 0o and 0b literals: no sign, at least one digit
RadixWidth(t) ==
    IF Len(t) < 2 \/ t[1] # "0" THEN 0
    ELSE IF t[2] \in {"x", "X"} THEN 4
    ELSE IF t[2] \in {"o", "O"} THEN 3
    ELSE IF t[2] \in {"b", "B"} THEN 1
    ELSE 0

\* the bits of a radix literal rounded to a double; beyond 2^1024 Infinity
RadixValue(ds, w) ==
    LET b == StripLeading(RadixToBits(ds, w), 0)
    IN  NumOfBits(FALSE, RoundToDouble(b, <<>>))

\* Number(string): StringToNumber.  White space is stripped from both ends;
\* the empty string is 0; then a 0x/0o/0b literal, or an optional sign before
\* Infinity or a decimal literal; any other text is NaN.
StringToNumber(str) ==
    LET t    == TrimRight(TrimLeft(str))
        sgn  == t # <<>> /\ Head(t) \in {"-", "+"}
        neg  == t # <<>> /\ Head(t) = "-"
        u    == IF sgn THEN Tail(t) ELSE t
        w    == RadixWidth(t)
    IN  IF t = <<>> THEN Num(FALSE, 0, 0)
        ELSE IF w > 0
        THEN IF Len(t) > 2 /\ \A i \in 3..Len(t) : t[i] \in RadixDigits(w)
             THEN RadixValue(SubSeq(t, 3, Len(t)), w)
             ELSE NaN
        ELSE IF u = s_Infinity THEN Infinity(neg)
        ELSE DecimalLiteral(neg, u)

\* x | 0: ToInt32 (NaN and the infinities to 0, truncate, reduce modulo 2^32,
\* read as signed)
ToInt32(x) ==
    IF x.nan \/ x.inf THEN 0
    ELSE LET h  == x.hi % Limb
             mh == IF ~x.neg THEN h
                   ELSE IF x.lo = 0 THEN (Limb - h) % Limb ELSE Limb - 1 - h
             ml == IF ~x.neg \/ x.lo = 0 THEN x.lo ELSE Limb - x.lo
         IN  (IF mh >= HalfLimb THEN mh - Limb ELSE mh) * Limb + ml

Max(a, b) == IF a >= b THEN a ELSE b

\* the mutant (Number(ttl) || DEFAULT_TTL) | 0, which takes NaN and 0 for the default
EffectiveTTLDefaultsOnFalsy(ttl) ==
    IF ~ttl.has \/ StringToNumber(ToStr(ttl)).nan
       \/ (~StringToNumber(ToStr(ttl)).inf
           /\ StringToNumber(ToStr(ttl)).hi = 0 /\ StringToNumber(ToStr(ttl)).lo = 0)
    THEN Max(TTL_FLOOR, DEFAULT_TTL)
    ELSE Max(TTL_FLOOR, ToInt32(StringToNumber(ToStr(ttl))))

\* ttl is the query's ttl member when present (has), a string s or an array
\* list: [has, arr, s, list].  `ttl || DEFAULT_TTL`: undefined and "" are
\* falsy, every other string and every array truthy.  Number() reads the
\* string of the value.
EffectiveTTL(ttl) ==
    IF ~ttl.has \/ (~ttl.arr /\ ttl.s = <<>>)
    THEN Max(TTL_FLOOR, DEFAULT_TTL)
    ELSE Max(TTL_FLOOR, ToInt32(StringToNumber(ToStr(ttl))))

NoTtl == [has |-> FALSE, arr |-> FALSE, s |-> <<>>, list |-> <<>>]

TtlValue(v) == [has |-> TRUE, arr |-> v.arr, s |-> v.s, list |-> v.list]

TtlOf(query) == EffectiveTTL(IF Has(query, s_ttl) THEN TtlValue(Get(query, s_ttl)) ELSE NoTtl)

(***************************************************************************)
(* Key derivation.                                                         *)
(***************************************************************************)
LowerHex(c) ==
    CASE c = "A" -> "a" [] c = "B" -> "b" [] c = "C" -> "c"
      [] c = "D" -> "d" [] c = "E" -> "e" [] c = "F" -> "f" [] OTHER -> c

\* a character written as its code point, "U+" and four hexadecimal digits
IsCodePoint(c) == Len(c) = 6 /\ SubSeq(c, 1, 2) = "U+"

\* a surrogate code unit that stands alone in its string (a pair is written
\* as the one code point it encodes)
IsLoneSurrogate(c) ==
    IsCodePoint(c) /\ SubSeq(c, 3, 4) \in {"D8", "D9", "DA", "DB", "DC", "DD", "DE", "DF"}

\* \uxxxx, the digits in lower case
UnicodeEscape(c) == <<"\\", "u">> \o [i \in 1..4 |-> LowerHex(SubSeq(c, i + 2, i + 2))]

\* JSON.stringify of one character inside a string literal: the quote and the
\* backslash behind a backslash, the control characters U+0000..U+001F by
\* their short escape or as \u00xx, a lone surrogate as \udxxx
EscapeChar(c) ==
    IF c = "\"" THEN <<"\\", "\"">>
    ELSE IF c = "\\" THEN <<"\\", "\\">>
    ELSE IF c = "U+0008" THEN <<"\\", "b">>
    ELSE IF c \in {"\t", "U+0009"} THEN <<"\\", "t">>
    ELSE IF c \in {"\n", "U+000A"} THEN <<"\\", "n">>
    ELSE IF c \in {"\f", "U+000C"} THEN <<"\\", "f">>
    ELSE IF c \in {"\r", "U+000D"} THEN <<"\\", "r">>
    ELSE IF IsCodePoint(c) /\ SubSeq(c, 3, 5) \in {"000", "001"} THEN UnicodeEscape(c)
    ELSE IF IsLoneSurrogate(c) THEN UnicodeEscape(c)
    ELSE <<c>>

RECURSIVE EscapeChars(_)
EscapeChars(s) == IF s = <<>> THEN <<>> ELSE EscapeChar(Head(s)) \o EscapeChars(Tail(s))

\* JSON.stringify of a string
QuoteString(s) == <<"\"">> \o EscapeChars(s) \o <<"\"">>

\* the elements of an array of strings, each stringified, between commas
RECURSIVE StringifyList(_)
StringifyList(list) ==
    IF list = <<>> THEN <<>>
    ELSE QuoteString(Head(list))
         \o (IF Tail(list) = <<>> THEN <<>> ELSE <<",">> \o StringifyList(Tail(list)))

\* JSON.stringify of a value of a query object
StringifyValue(v) ==
    IF v.arr THEN <<"[">> \o StringifyList(v.list) \o <<"]">> ELSE QuoteString(v.s)

\* the greatest array index, 2^32 - 2
MaxArrayIndex == <<"4","2","9","4","9","6","7","2","9","4">>

\* a property name that is an array index: the canonical decimal form of an
\* integer from 0 to 2^32 - 2
IsArrayIndex(k) ==
    /\ k # <<>>
    /\ AllDigits(k)
    /\ (Len(k) = 1 \/ Head(k) # "0")
    /\ (Len(k) < Len(MaxArrayIndex) \/ (Len(k) = Len(MaxArrayIndex) /\ DigitsGeq(MaxArrayIndex, k)))

\* for array indices a and b: a <= b
IndexLeq(a, b) == Len(a) < Len(b) \/ (Len(a) = Len(b) /\ DigitsGeq(b, a))

\* the positions is of names, in ascending order of the index they name
RECURSIVE Ascending(_, _)
Ascending(names, is) ==
    IF is = {} THEN <<>>
    ELSE LET i == CHOOSE i \in is : \A j \in is : IndexLeq(names[i], names[j])
         IN  <<i>> \o Ascending(names, is \ {i})

\* The order in which an object with these property names, in insertion
\* order, lists them: the array indices in ascending order, then the other
\* names in insertion order.  The result is the sequence of the positions.
PropertyOrder(names) ==
    LET is == {i \in 1..Len(names) : IsArrayIndex(names[i])}
    IN  Ascending(names, is)
        \o SelectSeq([i \in 1..Len(names) |-> i], LAMBDA i : i \notin is)

\* the members of a query object as it lists them
OwnProperties(q) ==
    LET order == PropertyOrder([i \in 1..Len(q) |-> q[i].k])
    IN  [i \in 1..Len(q) |-> q[order[i]]]

RECURSIVE StringifyMembers(_)
StringifyMembers(q) ==
    IF q = <<>> THEN <<>>
    ELSE QuoteString(Head(q).k) \o <<":">> \o StringifyValue(Head(q).v)
         \o (IF Tail(q) = <<>> THEN <<>> ELSE <<",">> \o StringifyMembers(Tail(q)))

\* JSON.stringify of an object whose values are strings or arrays of strings
StringifyQuery(q) == <<"{">> \o StringifyMembers(OwnProperties(q)) \o <<"}">>

\* const q = { ...query }; delete q.apiKey; `${path}?${JSON.stringify(q)}`
cacheKey(path, query) == path \o <<"?">> \o StringifyQuery(Delete(query, s_apiKey))

Handlers == {"odds", "eventWrap", "eventFilter"}

IsEventHandler(h) == h \in {"eventWrap", "eventFilter"}

\* a property of an object literal, k: v
Field(k, v) == [k |-> k, v |-> v]

\* the mutant that puts ttl among the parameters of the key
KeyParamsWithTtl(h, query) ==
    << Field(s_sport, GetOr(query, s_sport, d_sport)),
       Field(s_regions, GetOr(query, s_regions, d_regions)),
       Field(s_markets, GetOr(query, s_markets,
                              IF IsEventHandler(h) THEN d_marketsEvent ELSE d_marketsOdds)),
       Field(s_oddsFormat, GetOr(query, s_oddsFormat, d_oddsFormat)),
       Field(s_ttl, GetOr(query, s_ttl, <<>>)) >>

\* the four destructured parameters, in the order of the object literal
\* { sport, regions, markets, oddsFormat }
KeyParams(h, query) ==
    << Field(s_sport, GetOr(query, s_sport, d_sport)),
       Field(s_regions, GetOr(query, s_regions, d_regions)),
       Field(s_markets, GetOr(query, s_markets,
                              IF IsEventHandler(h) THEN d_marketsEvent ELSE d_marketsOdds)),
       Field(s_oddsFormat, GetOr(query, s_oddsFormat, d_oddsFormat)) >>

\* the mutant that leaves the event id out of the path
ResourcePathNoId(h, query) == IF IsEventHandler(h) THEN s_events ELSE s_odds

s_undefined == <<"u","n","d","e","f","i","n","e","d">>

\* `${id}` after const { id } = req.query: the string of the value, and
\* "undefined" when the query has no id
IdText(query) == IF Has(query, s_id) THEN ToStr(Get(query, s_id)) ELSE s_undefined

\* 'odds' or `events/${id}`
ResourcePath(h, query) == IF IsEventHandler(h) THEN s_events \o IdText(query) ELSE s_odds

\* const { id } = req.query throws a TypeError when req.query is undefined;
\* the handler of api/odds.js destructures req.query || {} only
DestructureThrows(h, rq) == IsEventHandler(h) /\ ~rq.defined

\* encodeURIComponent(x) throws a URIError when the string of x holds a lone
\* surrogate
EncodeThrows(x) == \E i \in 1..Len(x) : IsLoneSurrogate(x[i])

\* Building the upstream URL throws: regions, markets, oddsFormat and, in the
\* single-event handlers, id go through encodeURIComponent (an id that is
\* not there is encoded as "undefined"); sport is put in as it is.
UrlThrows(h, query) ==
    \/ \E i \in 2..4 : EncodeThrows(ToStr(KeyParams(h, query)[i].v))
    \/ IsEventHandler(h) /\ EncodeThrows(IdText(query))

\* the mutant of KeyOf whose key is the path and the text of req.query as it
\* is, an apiKey parameter of the request included
KeyOfWholeQuery(h, query) == ResourcePath(h, query) \o <<"?">> \o StringifyQuery(query)

\* the mutant of KeyOf that keys on req.query as received
KeyOfRawQuery(h, query) == cacheKey(ResourcePath(h, query), Delete(query, s_id))

\* const key = cacheKey(path, { sport, regions, markets, oddsFormat })
KeyOf(h, query) == cacheKey(ResourcePath(h, query), KeyParams(h, query))

(***************************************************************************)
(* JSON documents and body texts.                                          *)
(***************************************************************************)
\* A JSON value: null, a string, a number, true or false, an array, or an
\* object; undefined is what reading a property that is not there gives.  A
\* number is the text JSON.stringify writes for it ("-110", "1.91", "0").
JNull == [t |-> "null", s |-> "", n |-> "", arr |-> <<>>, obj |-> <<>>]

JUndefined == [t |-> "undefined", s |-> "", n |-> "", arr |-> <<>>, obj |-> <<>>]

JStr(s) == [t |-> "str", s |-> s, n |-> "", arr |-> <<>>, obj |-> <<>>]

JNum(n) == [t |-> "num", s |-> "", n |-> n, arr |-> <<>>, obj |-> <<>>]

JBool(b) == [t |-> IF b THEN "true" ELSE "false", s |-> "", n |-> "", arr |-> <<>>, obj |-> <<>>]

JArr(a) == [t |-> "arr", s |-> "", n |-> "", arr |-> a, obj |-> <<>>]

\* an object: its members [k |-> name, v |-> value] as the object lists them
JObj(ms) == [t |-> "obj", s |-> "", n |-> "", arr |-> <<>>, obj |-> ms]

HasProp(v, k) == v.t = "obj" /\ \E i \in 1..Len(v.obj) : v.obj[i].k = k

\* v.k for a non-null v
Prop(v, k) ==
    IF HasProp(v, k) THEN v.obj[CHOOSE i \in 1..Len(v.obj) : v.obj[i].k = k].v
    ELSE JUndefined

\* null, undefined, false, 0 and "" are falsy
Truthy(v) ==
    /\ v.t \notin {"null", "undefined", "false"}
    /\ ~(v.t = "str" /\ v.s = "")
    /\ ~(v.t = "num" /\ v.n = "0")

\* the characters of a string
Chars(s) == [i \in 1..Len(s) |-> SubSeq(s, i, i)]

\* The object that results from defining the members ms one after the other:
\* a name defined again keeps its place and takes the later value, and the
\* object lists array indices first.
ObjectOf(ms) ==
    LET firsts == SelectSeq([i \in 1..Len(ms) |-> i],
                            LAMBDA i : \A j \in 1..(i - 1) : ms[j].k # ms[i].k)
        last(k) == CHOOSE i \in 1..Len(ms) :
                        ms[i].k = k /\ \A j \in (i + 1)..Len(ms) : ms[j].k # k
        order  == PropertyOrder([i \in 1..Len(firsts) |-> Chars(ms[firsts[i]].k)])
    IN  [i \in 1..Len(firsts) |->
            [k |-> ms[firsts[order[i]]].k, v |-> ms[last(ms[firsts[order[i]]].k)].v]]

\* the own enumerable properties a spread copies: the members of an object,
\* the elements of an array and the characters of a string under their
\* indices, none of any other value
SpreadMembers(v) ==
    IF v.t = "obj" THEN v.obj
    ELSE IF v.t = "arr" THEN [i \in 1..Len(v.arr) |-> [k |-> ToString(i - 1), v |-> v.arr[i]]]
    ELSE IF v.t = "str"
    THEN [i \in 1..Len(v.s) |-> [k |-> ToString(i - 1), v |-> JStr(SubSeq(v.s, i, i))]]
    ELSE <<>>

\* { ...evt, k: x }
SpreadWith(evt, k, x) == JObj(ObjectOf(Append(SpreadMembers(evt), [k |-> k, v |-> x])))

\* A body text: a JSON text or a text that is not JSON.  A JSON text is its
\* document as written (the members of an object in the order of the text,
\* a name as often as the text has it) and whether the text differs from the
\* compact text of that document by insignificant white space.
JsonText(doc, ws) == [kind |-> "json", ws |-> ws, doc |-> doc, raw |-> ""]

RawText(raw) == [kind |-> "raw", ws |-> FALSE, doc |-> JNull, raw |-> raw]

\* JSON.parse: throws on a text that is not JSON
ParseThrows(text) == text.kind # "json"

\* the value JSON.parse builds from a document as written
RECURSIVE Parsed(_)
Parsed(doc) ==
    IF doc.t = "arr" THEN JArr([i \in 1..Len(doc.arr) |-> Parsed(doc.arr[i])])
    ELSE IF doc.t = "obj"
    THEN JObj(ObjectOf([i \in 1..Len(doc.obj) |->
                          [k |-> doc.obj[i].k, v |-> Parsed(doc.obj[i].v)]]))
    ELSE doc

JSONparse(text) == Parsed(text.doc)

\* JSON.stringify: the compact text of the value
JSONstringify(doc) == JsonText(doc, FALSE)

(***************************************************************************)
(* The allow-list filters.                                                 *)
(***************************************************************************)
NY_BOOK_TITLES ==
    {"DraftKings", "FanDuel", "BetMGM", "Caesars", "BetRivers", "Resorts World Bet"}

\* bm => NY_BOOK_TITLES.has(bm.title), for a non-null bm
IsNYBook(bm) == Prop(bm, "title").t = "str" /\ Prop(bm, "title").s \in NY_BOOK_TITLES

\* list.filter(bm => NY_BOOK_TITLES.has(bm.title))
FilterBooks(list) == SelectSeq(list, IsNYBook)

\* (evt.bookmakers || [])
BooksOrEmpty(evt) ==
    IF Truthy(Prop(evt, "bookmakers")) THEN Prop(evt, "bookmakers") ELSE JArr(<<>>)

\* TypeError in the map callback: evt is null, evt.bookmakers is truthy and
\* has no filter method (a string, a number, true, an object), or a bookmaker
\* is null
EventThrows(evt) ==
    \/ evt.t = "null"
    \/ BooksOrEmpty(evt).t # "arr"
    \/ \E i \in 1..Len(BooksOrEmpty(evt).arr) : BooksOrEmpty(evt).arr[i].t = "null"

\* evt => ({ ...evt, bookmakers: books })
MapEvent(evt) == SpreadWith(evt, "bookmakers", JArr(FilterBooks(BooksOrEmpty(evt).arr)))

\* the mutant that keeps events left with no bookmakers
KeepAllEvents(evts) == evts

\* .filter(evt => (evt.bookmakers || []).length > 0)
DropEmptyEvents(evts) == SelectSeq(evts, LAMBDA e : Len(BooksOrEmpty(e).arr) > 0)

\* filterToNY(json) of api/odds.js: [threw, val]
filterToNY(json) ==
    LET evts == IF json.t = "arr" THEN json.arr ELSE <<>>
    IN  IF \E i \in 1..Len(evts) : EventThrows(evts[i])
        THEN [threw |-> TRUE, val |-> JNull]
        ELSE [threw |-> FALSE,
              val |-> JArr(DropEmptyEvents([i \in 1..Len(evts) |-> MapEvent(evts[i])]))]

\* filterEventToNY(json) of the filtering single-event handler: [threw, val]
filterEventToNY(json) ==
    IF ~Truthy(json) \/ Prop(json, "bookmakers").t # "arr"
    THEN [threw |-> FALSE, val |-> SpreadWith(json, "bookmakers", JArr(<<>>))]
    ELSE IF \E i \in 1..Len(Prop(json, "bookmakers").arr) :
                Prop(json, "bookmakers").arr[i].t = "null"
    THEN [threw |-> TRUE, val |-> JNull]
    ELSE [threw |-> FALSE,
          val |-> SpreadWith(json, "bookmakers", JArr(FilterBooks(Prop(json, "bookmakers").arr)))]

\* the mutant that takes every status from 200 on for a success
Is2xxNoUpperBound(status) == status >= 200

Is2xx(status) == status >= 200 /\ status < 300

\* the mutant that passes an unparseable 2xx body through like an error text
TransformPassesUnparseable(h, status, text) ==
    IF ~Is2xx(status) THEN [threw |-> FALSE, body |-> text]
    ELSE IF ParseThrows(text) THEN [threw |-> FALSE, body |-> text]
    ELSE LET data == JSONparse(text)
             r    == IF h = "odds" THEN filterToNY(data)
                     ELSE IF h = "eventFilter" THEN filterEventToNY(data)
                     ELSE [threw |-> FALSE, val |-> JArr(<<data>>)]
         IN  [threw |-> r.threw, body |-> JSONstringify(r.val)]

\* the body computed from the upstream status and text, or the exception:
\* [threw, body]
Transform(h, status, text) ==
    IF ~Is2xx(status) THEN [threw |-> FALSE, body |-> text]
    ELSE IF ParseThrows(text) THEN [threw |-> TRUE, body |-> text]
    ELSE LET data == JSONparse(text)
             r    == IF h = "odds" THEN filterToNY(data)
                     ELSE IF h = "eventFilter" THEN filterEventToNY(data)
                     ELSE [threw |-> FALSE, val |-> JArr(<<data>>)]
         IN  [threw |-> r.threw, body |-> JSONstringify(r.val)]

(***************************************************************************)
(* Headers and responses.                                                  *)
(***************************************************************************)
\* the mutant that halves the ttl by integer division
setCachingHeadersFloorsHalf(ttl) ==
    [ cacheControl |-> [sMaxage |-> ttl, swr |-> ttl \div 2],
      contentType  |-> "application/json; charset=utf-8",
      allowOrigin  |-> "*" ]

\* setCachingHeaders(res, ttl); Math.round(ttl / 2) rounds a half upwards
setCachingHeaders(ttl) ==
    [ cacheControl |-> [sMaxage |-> ttl, swr |-> (ttl \div 2) + (ttl % 2)],
      contentType  |-> "application/json; charset=utf-8",
      allowOrigin  |-> "*" ]

NoHeaders ==
    [ cacheControl |-> [sMaxage |-> 0, swr |-> 0], contentType |-> "", allowOrigin |-> "" ]

ERROR_TTL == 10

ERROR_STATUS == 500

\* res.status(500).json({ error: 'Proxy error' })
ProxyErrorBody == JSONstringify(JObj(<<[k |-> "error", v |-> JStr("Proxy error")]>>))

NoResponse ==
    [outcome |-> "none", status |-> 0, body |-> RawText(""), headers |-> NoHeaders]

\* return res.status(status).send(body), after setCachingHeaders(res, ttl)
Response(outcome, status, body, ttl) ==
    [outcome |-> outcome, status |-> status, body |-> body, headers |-> setCachingHeaders(ttl)]

\* the catch block
ErrorResponse == Response("error", ERROR_STATUS, ProxyErrorBody, ERROR_TTL)

(***************************************************************************)
(* The cache _mem: a function from the keys it holds to their entries      *)
(* { ts, status, body }.                                                   *)
(***************************************************************************)
NoEntry == [has |-> FALSE, ts |-> 0, status |-> 0, body |-> RawText("")]

\* _mem.get(key): the entry, or undefined (has = FALSE)
MemGet(m, key) ==
    IF key \in DOMAIN m
    THEN [has |-> TRUE, ts |-> m[key].ts, status |-> m[key].status, body |-> m[key].body]
    ELSE NoEntry

\* the mutant that keeps the entry a key already has
MemSetFirstWriteWins(m, key, ts, status, body) ==
    IF key \in DOMAIN m THEN m
    ELSE [k \in (DOMAIN m) \cup {key} |->
            IF k = key THEN [ts |-> ts, status |-> status, body |-> body] ELSE m[k]]

\* the mutant that keeps the newest entry only
MemSetEvictsOthers(m, key, ts, status, body) ==
    [k \in {key} |-> [ts |-> ts, status |-> status, body |-> body]]

\* _mem.set(key, { ts, status, body })
MemSet(m, key, ts, status, body) ==
    [k \in (DOMAIN m) \cup {key} |->
        IF k = key THEN [ts |-> ts, status |-> status, body |-> body] ELSE m[k]]

\* the mutant that still serves an entry whose age equals the TTL
IsFreshInclusive(hit, t, TTL) == hit.has /\ (t - hit.ts) <= TTL * 1000

\* hit && (Date.now() - hit.ts) / 1000 < TTL.  TTL is an integer, so the
\* quotient is below it exactly when its floor is.
IsFresh(hit, t, TTL) == hit.has /\ ((t - hit.ts) \div 1000) < TTL

(***************************************************************************)
(* Requests.                                                               *)
(***************************************************************************)
ReqIds == 1..MaxReqs

\* what the upstream call of a request came back with so far: nothing, the
\* response with its status (got) while its body text is still awaited, or the
\* status and the whole text (full)
NoUpstream == [got |-> FALSE, full |-> FALSE, status |-> 0, text |-> RawText("")]

StatusOnly(st) == [got |-> TRUE, full |-> FALSE, status |-> st, text |-> RawText("")]

Upstream(st, text) == [got |-> TRUE, full |-> TRUE, status |-> st, text |-> text]

\* A request: its place in the handler (pc: idle before it is called, fetching
\* at await fetch, reading at await r.text(), done), what it computed on entry at
\* instant t0 (query, TTL, key, the entry it looked up, and whether it came
\* as far as the lookup), its upstream calls so far, what upstream answered,
\* its response, and the instant tw of its _mem.set if it came to it.
IdleReq ==
    [ pc |-> "idle", query |-> <<>>, t0 |-> 0, TTL |-> 0, key |-> <<>>, looked |-> FALSE,
      seen |-> NoEntry, calls |-> 0, up |-> NoUpstream, tw |-> 0, resp |-> NoResponse ]

s_nba == <<"n","b","a">>

s_eu == <<"e","u">>

s_5 == <<"5">>

s_11 == <<"1","1">>

s_e1 == <<"e","1">>

\* the queries of the requests: the defaults with an odd ttl, the same two
\* parameters in either order, once with a ttl below the floor, and a
\* parameter that no URL can carry
BaseQueries ==
    { << Member(s_ttl, s_11) >>,
      << Member(s_markets, <<"U+D800">>) >>,
      << Member(s_sport, s_nba), Member(s_regions, s_eu) >>,
      << Member(s_regions, s_eu), Member(s_sport, s_nba), Member(s_ttl, s_5) >> }

\* the query objects: the route of the single-event handlers supplies id
Queries(h) ==
    IF IsEventHandler(h) THEN {<<Member(s_id, s_e1)>> \o q : q \in BaseQueries}
    ELSE BaseQueries

\* req.query of the requests: one of the query objects, or undefined
ReqQueries(h) == {ReqQuery(q) : q \in Queries(h)} \cup {NoReqQuery}

Book(key, title) == JObj(<<[k |-> "key", v |-> JStr(key)], [k |-> "title", v |-> JStr(title)]>>)

EventDoc(id, books) ==
    JObj(<<[k |-> "id", v |-> JStr(id)], [k |-> "bookmakers", v |-> JArr(books)],
           [k |-> "sport_key", v |-> JStr("basketball_nba")]>>)

MixedEvent == EventDoc("ev1", <<Book("draftkings", "DraftKings"), Book("bovada", "Bovada")>>)

OffshoreEvent == EventDoc("ev2", <<Book("bovada", "Bovada")>>)

NotFoundText == JsonText(JObj(<<[k |-> "message", v |-> JStr("not found")]>>), FALSE)

BadGatewayText == RawText("Bad Gateway")

UpstreamStatuses == {200, 404}

\* what upstream may answer with a status: the endpoint's payload or its error
\* payload, or a text that is not JSON
UpstreamTexts(h, st) ==
    IF Is2xx(st)
    THEN { IF IsEventHandler(h) THEN JsonText(MixedEvent, TRUE)
           ELSE JsonText(JArr(<<MixedEvent, OffshoreEvent>>), TRUE),
           BadGatewayText }
    ELSE { NotFoundText }

\* the instants Date.now() is read at, in milliseconds after the first: one
\* millisecond before the age of 10 seconds, and exactly 10 and 60 seconds
Instants == {0, 9999, 10000, 60000}

(***************************************************************************)
(* The handler: one action for each stretch of it between two awaits.      *)
(***************************************************************************)
\* the mutant whose hit stamps the entry with the instant of the hit
StartRefreshesOnHit(i, rq) ==
    /\ reqs[i].pc = "idle"
    /\ \A j \in ReqIds : j < i => reqs[j].pc # "idle"
    /\ LET q   == QueryOrEmpty(rq)
           TTL == TtlOf(q)
           key == KeyOf(handler, q)
           hit == MemGet(mem, key)
           r0  == [ IdleReq EXCEPT !.query = q, !.t0 = now, !.TTL = TTL, !.key = key,
                                   !.looked = TRUE, !.seen = hit ]
       IN  /\ reqs' = [reqs EXCEPT ![i] =
                IF DestructureThrows(handler, rq)
                THEN [IdleReq EXCEPT !.pc = "done", !.t0 = now, !.resp = ErrorResponse]
                ELSE IF IsFresh(hit, now, TTL)
                THEN [r0 EXCEPT !.pc = "done",
                                !.resp = Response("cache", hit.status, hit.body, TTL)]
                ELSE IF UrlThrows(handler, q)
                THEN [r0 EXCEPT !.pc = "done", !.resp = ErrorResponse]
                ELSE [r0 EXCEPT !.pc = "fetching", !.calls = 1]]
           /\ mem' = IF ~DestructureThrows(handler, rq) /\ IsFresh(hit, now, TTL)
                     THEN MemSet(mem, key, now, hit.status, hit.body)
                     ELSE mem
    /\ UNCHANGED <<now, handler, ttlProbe, keyProbe, filterProbe>>

\* The handler is entered with req.query rq.  When destructuring it throws,
\* the catch block answers at once; otherwise TTL and key are computed, the
\* entry is looked up, and a fresh one is served; otherwise the upstream URL
\* is built, which ends in the catch block when it throws, and the upstream
\* call begun.
Start(i, rq) ==
    /\ reqs[i].pc = "idle"
    /\ \A j \in ReqIds : j < i => reqs[j].pc # "idle"
    /\ LET q   == QueryOrEmpty(rq)
           TTL == TtlOf(q)
           key == KeyOf(handler, q)
           hit == MemGet(mem, key)
           r0  == [ IdleReq EXCEPT !.query = q, !.t0 = now, !.TTL = TTL, !.key = key,
                                   !.looked = TRUE, !.seen = hit ]
       IN  reqs' = [reqs EXCEPT ![i] =
                IF DestructureThrows(handler, rq)
                THEN [IdleReq EXCEPT !.pc = "done", !.t0 = now, !.resp = ErrorResponse]
                ELSE IF IsFresh(hit, now, TTL)
                THEN [r0 EXCEPT !.pc = "done",
                                !.resp = Response("cache", hit.status, hit.body, TTL)]
                ELSE IF UrlThrows(handler, q)
                THEN [r0 EXCEPT !.pc = "done", !.resp = ErrorResponse]
                ELSE [r0 EXCEPT !.pc = "fetching", !.calls = 1]]
    /\ UNCHANGED <<now, handler, mem, ttlProbe, keyProbe, filterProbe>>

\* the mutant whose catch block stores the error response under the key
CatchCachesError(i) ==
    /\ reqs' = [reqs EXCEPT ![i].pc = "done", ![i].resp = ErrorResponse]
    /\ mem' = MemSet(mem, reqs[i].key, now, ERROR_STATUS, ProxyErrorBody)

\* the mutant that calls upstream once more after a transport fault
CatchRetries(i) ==
    /\ reqs' = IF reqs[i].calls < 2
               THEN [reqs EXCEPT ![i].pc = "fetching", ![i].calls = @ + 1]
               ELSE [reqs EXCEPT ![i].pc = "done", ![i].resp = ErrorResponse]
    /\ mem' = mem

\* the mutant whose transport fault leaves the handler uncaught: no response
CatchEscapes(i) ==
    /\ reqs' = [reqs EXCEPT ![i].pc = "crashed"]
    /\ mem' = mem

\* the catch block, entered from one of the awaits: log, error headers, 500;
\* _mem is not touched
Catch(i) ==
    /\ reqs' = [reqs EXCEPT ![i].pc = "done", ![i].resp = ErrorResponse]
    /\ mem' = mem

\* await fetch(upstream) rejects: the catch block
FetchRejects(i) ==
    /\ reqs[i].pc = "fetching"
    /\ Catch(i)
    /\ UNCHANGED <<now, handler, ttlProbe, keyProbe, filterProbe>>

\* the mutant that stores the status under the key as soon as it is in, before
\* the body text
FetchResolvesStoresStatus(i, st) ==
    /\ reqs[i].pc = "fetching"
    /\ reqs' = [reqs EXCEPT ![i].pc = "reading", ![i].up = StatusOnly(st)]
    /\ mem' = MemSet(mem, reqs[i].key, now, st, RawText(""))
    /\ UNCHANGED <<now, handler, ttlProbe, keyProbe, filterProbe>>

\* await fetch(upstream) resolves with a response of status st: r.status is
\* read, r.text() is called and the handler waits for it; nothing is stored or
\* answered, and other requests run before the text is in
FetchResolves(i, st) ==
    /\ reqs[i].pc = "fetching"
    /\ reqs' = [reqs EXCEPT ![i].pc = "reading", ![i].up = StatusOnly(st)]
    /\ UNCHANGED <<now, handler, mem, ttlProbe, keyProbe, filterProbe>>

\* await r.text() rejects: the catch block, the status read before it unused
TextRejects(i) ==
    /\ reqs[i].pc = "reading"
    /\ Catch(i)
    /\ UNCHANGED <<now, handler, ttlProbe, keyProbe, filterProbe>>

\* the mutant that stores the text as received and answers the transformed body
TextResolvesStoresRawText(i, text) ==
    /\ reqs[i].pc = "reading"
    /\ LET st == reqs[i].up.status
           tr == Transform(handler, st, text)
       IN  IF tr.threw
           THEN /\ reqs' = [reqs EXCEPT ![i].pc = "done",
                                        ![i].up = Upstream(st, text),
                                        ![i].resp = ErrorResponse]
                /\ mem' = mem
           ELSE /\ mem' = MemSet(mem, reqs[i].key, now, st, text)
                /\ reqs' = [reqs EXCEPT ![i].pc = "done", ![i].tw = now,
                                        ![i].up = Upstream(st, text),
                                        ![i].resp = Response("upstream", st, tr.body,
                                                             reqs[i].TTL)]
    /\ UNCHANGED <<now, handler, ttlProbe, keyProbe, filterProbe>>

\* await r.text() resolves with the body text of the response whose status was
\* read when the fetch resolved: transform, store at the instant of this step,
\* respond; an exception of the transformation goes to the catch block before
\* _mem.set
TextResolves(i, text) ==
    /\ reqs[i].pc = "reading"
    /\ LET st == reqs[i].up.status
           tr == Transform(handler, st, text)
       IN  IF tr.threw
           THEN /\ reqs' = [reqs EXCEPT ![i].pc = "done",
                                        ![i].up = Upstream(st, text),
                                        ![i].resp = ErrorResponse]
                /\ mem' = mem
           ELSE /\ mem' = MemSet(mem, reqs[i].key, now, st, tr.body)
                /\ reqs' = [reqs EXCEPT ![i].pc = "done", ![i].tw = now,
                                        ![i].up = Upstream(st, text),
                                        ![i].resp = Response("upstream", st, tr.body,
                                                             reqs[i].TTL)]
    /\ UNCHANGED <<now, handler, ttlProbe, keyProbe, filterProbe>>

\* Date.now() moves on to a later instant, while some request has yet to
\* arrive or to finish
Tick(t) ==
    /\ t > now
    /\ \E i \in ReqIds : reqs[i].pc # "done"
    /\ now' = t
    /\ UNCHANGED <<handler, mem, reqs, ttlProbe, keyProbe, filterProbe>>

NoProbe == <<>>

Init ==
    /\ now = 0
    /\ handler \in Handlers
    /\ mem = <<>>
    /\ reqs = [i \in ReqIds |-> IdleReq]
    /\ ttlProbe = NoProbe
    /\ keyProbe = NoProbe
    /\ filterProbe = NoProbe

Next ==
    \/ \E i \in ReqIds : \E rq \in ReqQueries(handler) : Start(i, rq)
    \/ \E i \in ReqIds : \E st \in UpstreamStatuses : FetchResolves(i, st)
    \/ \E i \in ReqIds : FetchRejects(i)
    \/ \E i \in ReqIds : \E text \in UpstreamTexts(handler, reqs[i].up.status) :
            TextResolves(i, text)
    \/ \E i \in ReqIds : TextRejects(i)
    \/ \E t \in Instants : Tick(t)

Spec == Init /\ [][Next]_vars

(***************************************************************************)
(* Progress: SpecLive is Spec with each await of every request settled at  *)
(* some time: the fetch in a response or a fault, then the text likewise.  *)
(***************************************************************************)
\* the await request i is at (of fetch, or of r.text()) is settled
UpstreamEnds(i) ==
    \/ FetchRejects(i)
    \/ \E st \in UpstreamStatuses : FetchResolves(i, st)
    \/ TextRejects(i)
    \/ \E text \in UpstreamTexts(handler, reqs[i].up.status) : TextResolves(i, text)

SpecLive == Init /\ [][Next]_vars /\ \A i \in ReqIds : WF_vars(UpstreamEnds(i))

(***************************************************************************)
(* The TTL computation on its own: SpecTTL applies it to ttl values.       *)
(***************************************************************************)
MaxTtlLen == 3

SeqsUpTo(S, n) == UNION {[1..k -> S] : k \in 0..n}

TtlAlphabet == {"0", "1", "2", "5", "9", "-", "+", ".", " ", "\t", "a", "e", "x", "z"}

\* 120; the ends of the 32-bit range and the values next to them; 2^32 + 10;
\* an integer no double holds; literals with an exponent, of another radix,
\* and Infinity; a fraction that rounds to the next integer; white space
\* that is not the space
LongTtls ==
    { <<"1","2","0">>,
      <<"2","1","4","7","4","8","3","6","4","7">>,
      <<"2","1","4","7","4","8","3","6","4","8">>,
      <<"3","0","0","0","0","0","0","0","0","0">>,
      <<"4","2","9","4","9","6","7","3","0","6">>,
      <<"-","2","1","4","7","4","8","3","6","4","8">>,
      <<"-","2","1","4","7","4","8","3","6","4","9">>,
      <<"-","3","0","0","0","0","0","0","0","0","0">>,
      <<"9","0","0","7","1","9","9","2","5","4","7","4","1","0","0","3">>,
      <<"1","e","1","0">>,
      <<"0","x","1","0">>,
      <<"0","b","1","0","1","0","1","0">>,
      <<"0","o","7","7","7">>,
      <<"I","n","f","i","n","i","t","y">>,
      <<"-","I","n","f","i","n","i","t","y">>,
      <<"9","9",".","9","9","9","9","9","9","9","9","9","9","9","9","9","9","9","9">>,
      <<"1","2","3","4","5","6","7","e","-","4">>,
      <<"U+00A0","5","0","\n","U+3000">> }

\* ttl given twice: an array
TtlLists == { <<s_5, <<"6">>>>, <<<<"1","2","0">>, <<"1","2","0">>>>, <<<<>>, <<>>>> }

\* the ttl of req.query: absent, a string, or an array of strings
TtlInputs ==
    {NoTtl}
    \cup {TtlValue(QStr(x)) : x \in SeqsUpTo(TtlAlphabet, MaxTtlLen) \cup LongTtls}
    \cup {TtlValue(QArr(l)) : l \in TtlLists}

ProbeTTL(t) ==
    /\ ttlProbe = <<>>
    /\ ttlProbe' = <<[ttl |-> t, TTL |-> EffectiveTTL(t)]>>
    /\ UNCHANGED <<now, handler, mem, reqs, keyProbe, filterProbe>>

NextTTL == \E t \in TtlInputs : ProbeTTL(t)

\* the module as loaded, no request made
InitIdle == Init /\ handler = "odds"

SpecTTL == InitIdle /\ [][NextTTL]_vars

(***************************************************************************)
(* The key derivation on its own: SpecKey derives the keys of two          *)
(* requests, each under some value of process.env.ODDS_API_KEY.            *)
(***************************************************************************)
Credentials == {<<"K","1">>, <<"K","2">>}

s_dec == <<"d","e","c">>

s_quoted == <<"a","\"",",","\\">>

\* a line feed, a tab and U+0001 in a value, and the value that spells the
\* escapes of the first two
s_control == <<"a","\n","\t","U+0001">>

s_escaped == <<"a","\\","n","\\","t">>

KeyBaseQueries ==
    { <<>>,
      << Member(s_sport, s_nba) >>,
      << Member(s_sport, s_nba), Member(s_regions, s_eu) >>,
      << Member(s_regions, s_eu), Member(s_sport, s_nba) >>,
      << Member(s_sport, s_eu), Member(s_regions, s_nba) >>,
      << Member(s_sport, d_sport) >>,
      << Member(s_sport, s_nba), Member(s_ttl, s_5) >>,
      << Member(s_apiKey, <<"K","1">>), Member(s_sport, s_nba) >>,
      << Member(s_apiKey, <<"K","2">>), Member(s_sport, s_nba) >>,
      << Member(s_sport, s_nba), ArrayMember(s_apiKey, <<<<"K","1">>, <<"K","2">>>>) >>,
      << Member(s_markets, s_quoted) >>,
      << Member(s_markets, s_control) >>,
      << Member(s_markets, s_escaped) >>,
      << ArrayMember(s_regions, <<d_regions, s_eu>>) >>,
      << Member(s_regions, <<"u","s",",","e","u">>) >>,
      << Member(s_oddsFormat, s_dec), Member(s_markets, <<"a">>) >> }

EventIds == { s_e1, <<"e","2">>, <<"e","1","?">> }

\* the id given twice, and the id whose text that is
TwiceIds == { <<ArrayMember(s_id, <<s_e1, <<"e","2">>>>)>>, <<Member(s_id, <<"e","1",",","e","2">>)>> }

\* the queries of the single-event handlers: with an id, without one, and
\* with the id given twice
KeyQueries(h) ==
    IF IsEventHandler(h)
    THEN {<<Member(s_id, id)>> \o q : id \in EventIds, q \in KeyBaseQueries}
         \cup KeyBaseQueries \cup TwiceIds
    ELSE KeyBaseQueries

\* One derivation: the key the handler computes for a request with this
\* query while process.env.ODDS_API_KEY is cred.  The key is computed from
\* req.query alone; the environment is read after it, for the upstream URL.
KeyProbe(h, query, cred) ==
    [ h |-> h, query |-> query, cred |-> cred, key |-> KeyOf(h, query) ]

DeriveKey(h, query, cred) ==
    /\ Len(keyProbe) < 2
    /\ keyProbe' = Append(keyProbe, KeyProbe(h, query, cred))
    /\ UNCHANGED <<now, handler, mem, reqs, ttlProbe, filterProbe>>

NextKey ==
    \E h \in Handlers : \E query \in KeyQueries(h) : \E cred \in Credentials :
        DeriveKey(h, query, cred)

SpecKey == InitIdle /\ [][NextKey]_vars

(***************************************************************************)
(* The transformation on its own: SpecFilter applies it to upstream        *)
(* statuses and texts.                                                     *)
(***************************************************************************)
MaxBooks == 2

MaxEvents == 2

\* two books on the allow-list and one off it
BookPool ==
    { Book("bovada", "Bovada"), Book("rwb", "Resorts World Bet"),
      Book("draftkings", "DraftKings") }

\* events with a bookmakers sequence, with none, and with a null one
EventPool ==
    {EventDoc("ev", books) : books \in SeqsUpTo(BookPool, MaxBooks)}
    \cup { JObj(<<[k |-> "id", v |-> JStr("ev")]>>),
           JObj(<<[k |-> "id", v |-> JStr("ev")], [k |-> "bookmakers", v |-> JNull]>>) }

\* an event with a number, a boolean and a member named by an array index
PricedEvent ==
    JObj(<< [k |-> "id", v |-> JStr("ev")],
            [k |-> "price", v |-> JNum("-110")],
            [k |-> "odds", v |-> JNum("1.91")],
            [k |-> "0", v |-> JBool(FALSE)],
            [k |-> "bookmakers",
             v |-> JArr(<<Book("rwb", "Resorts World Bet"), Book("bovada", "Bovada")>>)] >>)

\* an event with a bookmaker that is a number
NumberBookEvent == EventDoc("ev", <<JNum("7"), Book("rwb", "Resorts World Bet")>>)

\* an event whose text has bookmakers twice, a list and then null
TwiceEvent ==
    JObj(<< [k |-> "bookmakers", v |-> JArr(<<Book("rwb", "Resorts World Bet")>>)],
            [k |-> "id", v |-> JStr("ev")],
            [k |-> "bookmakers", v |-> JNull] >>)

\* payloads outside the expected shape
OddDocs ==
    { JArr(<<JNull>>),
      JArr(<<EventDoc("ev", <<JNull>>)>>),
      JArr(<<JObj(<<[k |-> "bookmakers", v |-> JStr("none")]>>)>>),
      JArr(<<JObj(<<[k |-> "bookmakers", v |-> JNum("5")]>>)>>),
      JArr(<<JObj(<<[k |-> "bookmakers", v |-> JNum("0")]>>)>>),
      JArr(<<JObj(<<[k |-> "bookmakers", v |-> JBool(TRUE)]>>)>>),
      JArr(<<JStr("abc"), JNum("5"), JArr(<<JStr("x")>>)>>),
      JArr(<<PricedEvent>>),
      JArr(<<TwiceEvent>>),
      JArr(<<NumberBookEvent>>),
      NumberBookEvent,
      EventDoc("ev", <<JNull>>),
      PricedEvent,
      TwiceEvent,
      JStr("abc"),
      JStr(""),
      JNum("5"),
      JNum("0"),
      JBool(TRUE),
      JBool(FALSE),
      JNull }

\* collections of up to n events for odds.js, single events for the others
FilterDocs(h, n) ==
    (IF IsEventHandler(h) THEN EventPool
     ELSE {JArr(evts) : evts \in SeqsUpTo(EventPool, n)})
    \cup OddDocs

\* status 200 carries every payload; the other statuses carry the payloads
\* of at most one event
FilterTexts(h, st) ==
    {JsonText(doc, ws) : doc \in FilterDocs(h, IF st = 200 THEN MaxEvents ELSE 1),
                         ws \in BOOLEAN}
    \cup {BadGatewayText}

FilterStatuses == {200, 299, 300, 404}

ProbeTransform(h, st, text) ==
    /\ filterProbe = <<>>
    /\ filterProbe' = <<[ h |-> h, status |-> st, text |-> text,
                          out |-> Transform(h, st, text) ]>>
    /\ UNCHANGED <<now, handler, mem, reqs, ttlProbe, keyProbe>>

NextFilter ==
    \E h \in Handlers : \E st \in FilterStatuses : \E text \in FilterTexts(h, st) :
        ProbeTransform(h, st, text)

SpecFilter == InitIdle /\ [][NextFilter]_vars

(***************************************************************************)
(* Properties.                                                             *)
(***************************************************************************)
Started == {i \in ReqIds : reqs[i].pc # "idle"}

Done == {i \in ReqIds : reqs[i].pc = "done"}

\* the requests that computed their TTL and key and looked the key up
LookedUp == {i \in Started : reqs[i].looked}

\* a query none of whose values holds a surrogate code unit on its own, as
\* every query is that was decoded from a URL
WellFormed(query) ==
    \A m \in 1..Len(query) :
        LET x == IF query[m].v.arr THEN Join(query[m].v.list) ELSE query[m].v.s
        IN  \A i \in 1..Len(x) :
                ~( /\ Len(x[i]) = 6
                   /\ SubSeq(x[i], 1, 3) = "U+D"
                   /\ SubSeq(x[i], 4, 4) \in {"8", "9", "A", "B", "C", "D", "E", "F"} )

\* the requests that wrote an entry
Writers == {i \in Done : reqs[i].resp.outcome = "upstream"}

\* the age in milliseconds of the entry a request looked up
AgeSeen(i) == reqs[i].t0 - reqs[i].seen.ts

\* C1: a request with an effective TTL and a key that finds an entry for its
\* key younger than its TTL (age in ms < 1000 * TTL) is served that entry's
\* status and body without an upstream fetch; one that finds no entry, or one
\* whose age is at least its TTL, is not served from the cache and, its query
\* being well-formed, fetches upstream once.
C1_FreshnessDecidesHit ==
    \A i \in LookedUp :
        /\ (reqs[i].seen.has /\ AgeSeen(i) < 1000 * reqs[i].TTL)
              => /\ reqs[i].pc = "done"
                 /\ reqs[i].resp.outcome = "cache"
                 /\ reqs[i].resp.status = reqs[i].seen.status
                 /\ reqs[i].resp.body = reqs[i].seen.body
                 /\ reqs[i].calls = 0
        /\ (~reqs[i].seen.has \/ AgeSeen(i) >= 1000 * reqs[i].TTL)
              => /\ WellFormed(reqs[i].query) => reqs[i].calls = 1
                 /\ reqs[i].resp.outcome # "cache"
        /\ reqs[i].seen.has => reqs[i].key \in DOMAIN mem

\* a hit one millisecond before the entry turns 10 seconds old
C1_Witness ==
    \E i \in Done :
        /\ reqs[i].resp.outcome = "cache"
        /\ reqs[i].TTL = 10
        /\ AgeSeen(i) = 9999

\* the only writer of its key
OnlyWriter(i) == \A k \in Writers : reqs[k].key = reqs[i].key => k = i

\* C2: a request whose upstream call answers a non-2xx status and a body text
\* returns that status and the text unchanged and leaves them in the cache under
\* its key; a later request for the key, arriving within its TTL of that
\* write, returns the same status and body without an upstream call.
C2_ErrorStatusPassedThroughAndCached ==
    \A i \in Done :
        (reqs[i].up.full /\ ~(reqs[i].up.status \in 200..299))
        => /\ reqs[i].resp.outcome = "upstream"
           /\ reqs[i].resp.status = reqs[i].up.status
           /\ reqs[i].resp.body = reqs[i].up.text
           /\ reqs[i].key \in DOMAIN mem
           /\ OnlyWriter(i)
                 => mem[reqs[i].key] = [ts |-> reqs[i].tw, status |-> reqs[i].up.status,
                                        body |-> reqs[i].up.text]
           /\ \A j \in Started :
                 ( /\ reqs[j].key = reqs[i].key
                   /\ OnlyWriter(i)
                   /\ reqs[j].t0 > reqs[i].tw
                   /\ reqs[j].t0 - reqs[i].tw < 1000 * reqs[j].TTL )
                 => /\ reqs[j].resp.outcome = "cache"
                    /\ reqs[j].resp.status = reqs[i].up.status
                    /\ reqs[j].resp.body = reqs[i].up.text
                    /\ reqs[j].calls = 0

\* an upstream 404 with its body, and a later request served that 404 from
\* the cache
C2_Witness ==
    \E i, j \in Done :
        /\ reqs[i].up.full /\ reqs[i].up.status = 404 /\ reqs[i].up.text = NotFoundText
        /\ reqs[i].resp.outcome = "upstream"
        /\ reqs[j].key = reqs[i].key
        /\ reqs[j].t0 > reqs[i].tw
        /\ reqs[j].resp.outcome = "cache"
        /\ reqs[j].resp.status = 404

\* the step in which request i's upstream call fails at transport level: the
\* fetch rejects, or the reading of the body text does
TransportFailure(i) ==
    /\ reqs[i].pc \in {"fetching", "reading"}
    /\ reqs'[i].pc = "done"
    /\ ~reqs'[i].up.full

\* C3: the step in which a request's upstream call throws answers 500 with the
\* body {"error":"Proxy error"} and leaves the cache exactly as it was.
C3_TransportFailureNotCached ==
    [][ \A i \in ReqIds :
            TransportFailure(i)
            => /\ reqs'[i].resp.outcome = "error"
               /\ reqs'[i].resp.status = 500
               /\ reqs'[i].resp.body =
                      JsonText(JObj(<<[k |-> "error", v |-> JStr("Proxy error")]>>), FALSE)
               /\ mem' = mem ]_vars

\* a request whose fetch threw and one whose body text failed after a status
\* of 200, their key still without an entry
C3_Witness ==
    \E i, j \in Done :
        /\ reqs[i].calls = 1 /\ reqs[j].calls = 1
        /\ ~reqs[i].up.got
        /\ reqs[j].up.got /\ ~reqs[j].up.full /\ reqs[j].up.status = 200
        /\ reqs[i].resp.status = 500 /\ reqs[j].resp.status = 500
        /\ reqs[i].key = reqs[j].key
        /\ reqs[i].key \notin DOMAIN mem

\* the allow-list as the specification names it
AllowList == {"DraftKings", "FanDuel", "BetMGM", "Caesars", "BetRivers", "Resorts World Bet"}

Members(v) == {v.obj[i] : i \in 1..Len(v.obj)}

Allowed(bm) == \E m \in Members(bm) : m.k = "title" /\ m.v.t = "str" /\ m.v.s \in AllowList

\* the bookmakers of an event; none when it has no bookmakers sequence
BooksOf(e) ==
    IF \E m \in Members(e) : m.k = "bookmakers" /\ m.v.t = "arr"
    THEN (CHOOSE m \in Members(e) : m.k = "bookmakers").v.arr
    ELSE <<>>

\* every object in the document has each of its names once
RECURSIVE UniqueNames(_)
UniqueNames(v) ==
    /\ \A i, j \in 1..Len(v.obj) : v.obj[i].k = v.obj[j].k => i = j
    /\ \A i \in 1..Len(v.obj) : UniqueNames(v.obj[i].v)
    /\ \A i \in 1..Len(v.arr) : UniqueNames(v.arr[i])

\* an event of the expected shape: an object, each name once, whose
\* bookmakers, if any, are bookmaker objects
IsEvent(e) ==
    /\ e.t = "obj"
    /\ UniqueNames(e)
    /\ \A m \in Members(e) : m.k = "bookmakers" => m.v.t \in {"arr", "null"}
    /\ \A i \in 1..Len(BooksOf(e)) : BooksOf(e)[i].t = "obj"

\* the same JSON value: arrays element by element, objects member by member
\* whatever the order of the members
RECURSIVE SameValue(_, _)
SameValue(a, b) ==
    /\ a.t = b.t /\ a.s = b.s /\ a.n = b.n
    /\ Len(a.arr) = Len(b.arr)
    /\ \A i \in 1..Len(a.arr) : SameValue(a.arr[i], b.arr[i])
    /\ Len(a.obj) = Len(b.obj)
    /\ \A i \in 1..Len(a.obj) :
          \E j \in 1..Len(b.obj) : a.obj[i].k = b.obj[j].k /\ SameValue(a.obj[i].v, b.obj[j].v)

HasAllowedBook(e) == \E i \in 1..Len(BooksOf(e)) : Allowed(BooksOf(e)[i])

\* the event with its bookmakers restricted to the allow-list, the rest as it was
Restricted(e) ==
    JObj([i \in 1..Len(e.obj) |->
            IF e.obj[i].k = "bookmakers"
            THEN [k |-> "bookmakers", v |-> JArr(SelectSeq(BooksOf(e), Allowed))]
            ELSE e.obj[i]])

ExpectedCollection(evts) ==
    LET kept == SelectSeq(evts, HasAllowedBook)
    IN  JArr([i \in 1..Len(kept) |-> Restricted(kept[i])])

\* C4: for a 2xx upstream payload that is a sequence of events, the body of
\* the collection endpoint is the JSON text of the events that have an
\* allow-listed bookmaker, in their order, each with its bookmakers restricted
\* to the allow-listed ones in their order and its other members unchanged.
C4_CollectionFilteredToAllowList ==
    \A n \in 1..Len(filterProbe) :
        LET p == filterProbe[n]
        IN  ( /\ p.h = "odds"
              /\ p.status \in 200..299
              /\ p.text.kind = "json"
              /\ p.text.doc.t = "arr"
              /\ \A i \in 1..Len(p.text.doc.arr) : IsEvent(p.text.doc.arr[i]) )
            => /\ ~p.out.threw
               /\ p.out.body.kind = "json"
               /\ UniqueNames(p.out.body.doc)
               /\ SameValue(p.out.body.doc, ExpectedCollection(p.text.doc.arr))

\* two events in: the first kept with its two allow-listed bookmakers in their
\* order, the second, with none, dropped
C4_Witness ==
    /\ Len(filterProbe) = 1
    /\ filterProbe[1].h = "odds"
    /\ filterProbe[1].status = 200
    /\ filterProbe[1].text.doc =
          JArr(<< EventDoc("ev", <<Book("rwb", "Resorts World Bet"),
                                   Book("draftkings", "DraftKings")>>),
                  EventDoc("ev", <<Book("bovada", "Bovada")>>) >>)
    /\ filterProbe[1].text.ws
    /\ ~filterProbe[1].out.threw
    /\ Len(filterProbe[1].out.body.doc.arr) = 1
    /\ BooksOf(filterProbe[1].out.body.doc.arr[1])
          = <<Book("rwb", "Resorts World Bet"), Book("draftkings", "DraftKings")>>

\* the event of a single-event response body: the object, or the one element
\* of the sequence that wraps it
EventInBody(doc) == IF doc.t = "arr" /\ Len(doc.arr) = 1 THEN doc.arr[1] ELSE doc

\* C5: for a 2xx upstream event, both single-event handlers answer with the
\* event retained, its bookmakers a list of allow-listed bookmakers only
\* (empty when the event had no bookmakers sequence).
C5_SingleEventFilteredAndRetained ==
    \A n \in 1..Len(filterProbe) :
        LET p == filterProbe[n]
        IN  ( /\ IsEventHandler(p.h)
              /\ p.status \in 200..299
              /\ p.text.kind = "json"
              /\ IsEvent(p.text.doc) )
            => /\ ~p.out.threw
               /\ EventInBody(p.out.body.doc).t = "obj"
               /\ \E m \in Members(EventInBody(p.out.body.doc)) :
                     m.k = "bookmakers" /\ m.v.t = "arr"
               /\ \A i \in 1..Len(BooksOf(EventInBody(p.out.body.doc))) :
                     Allowed(BooksOf(EventInBody(p.out.body.doc))[i])

\* a string that is a decimal integer: digits, or a minus sign and digits
IsIntLiteral(s) ==
    /\ s # <<>>
    /\ \/ AllDigits(s)
       \/ (Head(s) = "-" /\ Len(s) > 1 /\ AllDigits(Tail(s)))

\* the digits of the magnitude of an integer literal, without leading zeros
LitDigits(s) == StripLeading(IF Head(s) = "-" THEN Tail(s) ELSE s, "0")

IsZero(s) == LitDigits(s) = <<>>

IsNegative(s) == Head(s) = "-" /\ ~IsZero(s)

BelowFloor(s) == IsNegative(s) \/ Len(LitDigits(s)) <= 1

\* the decimal digits of a natural number
RECURSIVE NatDigits(_)
NatDigits(n) == IF n = 0 THEN <<>> ELSE NatDigits(n \div 10) \o <<ToString(n % 10)>>

\* C6: for every integer n given as ttl the effective TTL is 10 when n < 10
\* and n when n >= 10, and it is never below 10.
C6_TtlClampedToFloor ==
    \A n \in 1..Len(ttlProbe) :
        LET p == ttlProbe[n]
        IN  /\ p.TTL >= 10
            /\ (p.ttl.has /\ ~p.ttl.arr /\ IsIntLiteral(p.ttl.s))
               => IF BelowFloor(p.ttl.s) THEN p.TTL = 10
                  ELSE NatDigits(p.TTL) = LitDigits(p.ttl.s)

\* the characters numeric literals are written with
NumericChars ==
    Digits \cup StrWhiteSpaceChar
    \cup {"-", "+", ".", "e", "E", "x", "X", "o", "O", "b", "B",
          "a", "A", "c", "C", "d", "D", "f", "F", "I", "n", "i", "t", "y"}

\* a text with a character no numeric literal has
HasLetter(s) == \E i \in 1..Len(s) : s[i] \notin NumericChars

\* within the 32-bit range: the magnitude is at most 2^31
InInt32Range(s) ==
    \/ Len(LitDigits(s)) < 10
    \/ /\ Len(LitDigits(s)) = 10
       /\ DigitsGeq(<<"2","1","4","7","4","8","3","6","4","8">>, LitDigits(s))

\* the text Number() reads of a ttl that is there: the string, or the
\* elements of the array between commas
TtlText(ttl) == IF ttl.arr THEN Join(ttl.list) ELSE ttl.s

\* an integer literal that is zero or negative
NonPositive(ttl) ==
    ~ttl.arr /\ IsIntLiteral(ttl.s) /\ (IsZero(ttl.s) \/ IsNegative(ttl.s))

\* C7 as claimed: the effective TTL is 60 whenever ttl is absent, is not
\* numeric, or is an integer that is not positive.
C7_DefaultOnMalformed ==
    \A n \in 1..Len(ttlProbe) :
        LET p == ttlProbe[n]
        IN  (~p.ttl.has \/ HasLetter(TtlText(p.ttl)) \/ NonPositive(p.ttl))
            => p.TTL = 60

\* C7 as amended: the effective TTL is 60 when ttl is absent or the empty
\* string; a ttl that is not numeric (its text has a character no numeric
\* literal is written with), and an integer ttl that is not positive (within
\* the 32-bit range), give the floor 10, not the default.
C7_DefaultOnlyWhenAbsent ==
    \A n \in 1..Len(ttlProbe) :
        LET p == ttlProbe[n]
        IN  /\ (~p.ttl.has \/ (~p.ttl.arr /\ p.ttl.s = <<>>)) => p.TTL = 60
            /\ (p.ttl.has /\ HasLetter(TtlText(p.ttl))) => p.TTL = 10
            /\ (p.ttl.has /\ NonPositive(p.ttl) /\ InInt32Range(p.ttl.s)) => p.TTL = 10

\* a ttl that is not numeric, answered with the floor
C7_Witness ==
    /\ Len(ttlProbe) = 1
    /\ ttlProbe[1].ttl.has
    /\ HasLetter(TtlText(ttlProbe[1].ttl))
    /\ ttlProbe[1].TTL = 10

\* the value a query gives a parameter, or the default
ParamOf(query, name, dflt) ==
    IF \E i \in 1..Len(query) : query[i].k = name
    THEN query[CHOOSE i \in 1..Len(query) : query[i].k = name].v
    ELSE QStr(dflt)

\* the event a query names in the resource path: the text of its id, and
\* "undefined" without one
PathId(query) ==
    IF \E i \in 1..Len(query) : query[i].k = s_id
    THEN ToStr(ParamOf(query, s_id, <<>>))
    ELSE <<"u","n","d","e","f","i","n","e","d">>

\* the resource and the four parameters a request stands for
Resource(h, query) ==
    << IF IsEventHandler(h) THEN PathId(query) ELSE <<>>,
       ParamOf(query, s_sport, d_sport),
       ParamOf(query, s_regions, d_regions),
       ParamOf(query, s_markets, IF IsEventHandler(h) THEN d_marketsEvent ELSE d_marketsOdds),
       ParamOf(query, s_oddsFormat, d_oddsFormat) >>

\* sub occurs in s as a contiguous substring
Contains(s, sub) ==
    \E i \in 1..(Len(s) - Len(sub) + 1) : SubSeq(s, i, i + Len(sub) - 1) = sub

\* the query without the apiKey parameter of the request
SansApiKey(query) == SelectSeq(query, LAMBDA m : m.k # s_apiKey)

\* the values a request gives for apiKey
ApiKeyValues(query) ==
    UNION { IF query[i].v.arr THEN {query[i].v.list[j] : j \in 1..Len(query[i].v.list)}
            ELSE {query[i].v.s} : i \in {j \in 1..Len(query) : query[j].k = s_apiKey} }

\* C8: the key the handler computes for a request contains no apiKey member,
\* none of the values the request gives for apiKey and not the value of
\* ODDS_API_KEY, and two requests to a handler that differ in nothing but the
\* credential (the apiKey parameter they carry, or not, and the value of
\* ODDS_API_KEY they are handled under) get the same key.
C8_CredentialNotInKey ==
    /\ \A n \in 1..Len(keyProbe) :
          /\ ~Contains(keyProbe[n].key, s_apiKey)
          /\ ~Contains(keyProbe[n].key, keyProbe[n].cred)
          /\ \A c \in ApiKeyValues(keyProbe[n].query) : ~Contains(keyProbe[n].key, c)
    /\ \A m, n \in 1..Len(keyProbe) :
          ( /\ keyProbe[m].h = keyProbe[n].h
            /\ SansApiKey(keyProbe[m].query) = SansApiKey(keyProbe[n].query) )
          => keyProbe[m].key = keyProbe[n].key

\* a request that carries an apiKey and the same request without one, handled
\* under two values of ODDS_API_KEY, with one key
C8_Witness ==
    /\ Len(keyProbe) = 2
    /\ keyProbe[1].h = keyProbe[2].h
    /\ ApiKeyValues(keyProbe[1].query) # {}
    /\ ApiKeyValues(keyProbe[2].query) = {}
    /\ SansApiKey(keyProbe[1].query) = keyProbe[2].query
    /\ keyProbe[1].cred # keyProbe[2].cred
    /\ keyProbe[1].key = keyProbe[2].key

\* C9: two requests to a handler get the same key exactly when they agree on
\* the resource path (the event id) and on sport, regions, markets and
\* oddsFormat, defaults filled in.
C9_KeyInjectiveOnResourceAndParams ==
    \A m, n \in 1..Len(keyProbe) :
        keyProbe[m].h = keyProbe[n].h
        => ( keyProbe[m].key = keyProbe[n].key
             <=> Resource(keyProbe[m].h, keyProbe[m].query)
                   = Resource(keyProbe[n].h, keyProbe[n].query) )

\* two requests for different events with otherwise equal parameters, keyed
\* apart
C9_Witness ==
    /\ Len(keyProbe) = 2
    /\ keyProbe[1].h = "eventFilter"
    /\ keyProbe[2].h = "eventFilter"
    /\ PathId(keyProbe[1].query) # PathId(keyProbe[2].query)
    /\ Tail(Resource("eventFilter", keyProbe[1].query))
         = Tail(Resource("eventFilter", keyProbe[2].query))
    /\ keyProbe[1].key # keyProbe[2].key

KeyParamNames == {s_sport, s_regions, s_markets, s_oddsFormat}

\* the key parameters of a query in the order the caller gave them
GivenParams(query) == SelectSeq(query, LAMBDA m : m.k \in KeyParamNames)

\* the same resource and the same parameter values, listed in another order
Reordered(q1, q2) ==
    /\ PathId(q1) = PathId(q2)
    /\ {GivenParams(q1)[i] : i \in 1..Len(GivenParams(q1))}
         = {GivenParams(q2)[i] : i \in 1..Len(GivenParams(q2))}
    /\ GivenParams(q1) # GivenParams(q2)

\* C10 as claimed: two requests that give the same parameter values in a
\* different order are keyed differently.
C10_OrderDistinguishesKeys ==
    \A i, j \in Started :
        Reordered(reqs[i].query, reqs[j].query) => reqs[i].key # reqs[j].key

\* C10 as amended: two requests that give the same parameter values in a
\* different order get the same key, and the one that arrives after the
\* other's write, within its own TTL of it, is served from the cache without
\* an upstream call.
C10_OrderDoesNotDistinguishKeys ==
    \A i, j \in Started :
        Reordered(reqs[i].query, reqs[j].query)
        => /\ reqs[i].key = reqs[j].key
           /\ ( /\ i \in Writers
                /\ reqs[j].t0 > reqs[i].tw
                /\ reqs[j].t0 - reqs[i].tw < 1000 * reqs[j].TTL )
              => /\ reqs[j].resp.outcome = "cache"
                 /\ reqs[j].calls = 0

\* a request served from the entry written for the same parameters in the
\* other order
C10_Witness ==
    \E i, j \in Done :
        /\ Reordered(reqs[i].query, reqs[j].query)
        /\ i \in Writers
        /\ reqs[j].t0 > reqs[i].tw
        /\ reqs[j].resp.outcome = "cache"
        /\ reqs[j].resp.body = reqs[i].resp.body

\* the value of T a response's Cache-Control is built from
HeaderTtl(i) == IF reqs[i].resp.outcome = "error" THEN 10 ELSE reqs[i].TTL

\* C11: every response (cache hit, served from upstream with any status,
\* error) carries Content-Type application/json; charset=utf-8,
\* Access-Control-Allow-Origin * and Cache-Control s-maxage=T,
\* stale-while-revalidate=round(T/2), where T is the request's effective TTL
\* on the hit and upstream paths and 10 on the error path whatever ttl the
\* caller asked for.
C11_HeadersOnEveryExitPath ==
    \A i \in Done :
        /\ reqs[i].resp.outcome \in {"cache", "upstream", "error"}
        /\ reqs[i].resp.headers.contentType = "application/json; charset=utf-8"
        /\ reqs[i].resp.headers.allowOrigin = "*"
        /\ reqs[i].resp.headers.cacheControl.sMaxage = HeaderTtl(i)
        /\ 2 * reqs[i].resp.headers.cacheControl.swr \in {HeaderTtl(i), HeaderTtl(i) + 1}

\* an error response of a request whose TTL is not 10, next to an upstream
\* response with the odd TTL 11 (stale-while-revalidate=6)
C11_Witness ==
    \E i, j \in Done :
        /\ reqs[i].resp.outcome = "error"
        /\ reqs[i].TTL = 60
        /\ reqs[i].resp.headers.cacheControl = [sMaxage |-> 10, swr |-> 5]
        /\ reqs[j].resp.outcome = "upstream"
        /\ reqs[j].resp.status = 404
        /\ reqs[j].resp.headers.cacheControl = [sMaxage |-> 11, swr |-> 6]

\* request i enters the handler in this step
Arrives(i) == reqs[i].pc = "idle" /\ reqs'[i].pc # "idle"

\* the upstream call of request i ends in this step, its body text in, with a
\* response served
Completes(i) ==
    reqs[i].pc = "reading" /\ reqs'[i].pc = "done" /\ reqs'[i].resp.outcome = "upstream"

\* the entry request i stores when its upstream call ends at instant t
OwnEntry(i, t) ==
    [ts |-> t, status |-> reqs'[i].resp.status, body |-> reqs'[i].resp.body]

\* the cache holds no entry for the key that is fresh for a TTL at instant t
Cold(key, TTL, t) == key \notin DOMAIN mem \/ t - mem[key].ts >= 1000 * TTL

\* C12: a request that arrives while the cache is cold for its key goes to
\* upstream whatever other requests are in flight for that key (no
\* single-flight), and a request whose upstream call ends stores its own whole
\* entry over whatever is stored for the key, so the entry left is that of the
\* request whose call ended last.
C12_NoSingleFlightLaterWriteWins ==
    [][ \A i \in ReqIds :
          /\ ( /\ Arrives(i) /\ reqs'[i].looked /\ WellFormed(reqs'[i].query)
                /\ Cold(reqs'[i].key, reqs'[i].TTL, now) )
                => (reqs'[i].pc = "fetching" /\ reqs'[i].calls = 1)
          /\ Completes(i)
                => /\ reqs[i].key \in DOMAIN mem'
                   /\ mem'[reqs[i].key] = OwnEntry(i, now) ]_vars

\* two requests missed on the same key and both fetched; the call of the one
\* that arrived later ended first, with a 404, the call of the earlier one
\* after it with a 200, and the entry left is the 200
C12_Witness ==
    \E i, j \in Writers :
        /\ i # j
        /\ reqs[i].key = reqs[j].key
        /\ ~reqs[i].seen.has /\ ~reqs[j].seen.has
        /\ reqs[i].calls = 1 /\ reqs[j].calls = 1
        /\ reqs[i].tw < reqs[j].tw
        /\ reqs[i].t0 > reqs[j].t0
        /\ reqs[i].resp.status = 404 /\ reqs[j].resp.status = 200
        /\ mem[reqs[j].key] = [ts |-> reqs[j].tw, status |-> 200, body |-> reqs[j].resp.body]

\* request i has its upstream response in full, the transformation of it
\* succeeded, and the entry e is made of that one response
MadeOf(e, i) ==
    /\ reqs[i].pc = "done"
    /\ reqs[i].up.full
    /\ ~Transform(handler, reqs[i].up.status, reqs[i].up.text).threw
    /\ e.ts = reqs[i].tw
    /\ e.status = reqs[i].up.status
    /\ e.body = Transform(handler, reqs[i].up.status, reqs[i].up.text).body
    /\ (reqs[i].up.status < 200 \/ reqs[i].up.status >= 300) => e.body = reqs[i].up.text

\* C13: in every state, under every interleaving, each entry of the cache is
\* made of the status and the (transformed) body of one upstream response, that
\* of a request for the entry's key whose upstream call has ended and whose
\* transformation succeeded; a request still waiting for upstream (for the
\* response, or with its status for the body text), or one that ended in the
\* error outcome, has stored nothing.
C13_EntriesFromOneCompletedResponse ==
    /\ \A k \in DOMAIN mem : \E i \in ReqIds : reqs[i].key = k /\ MadeOf(mem[k], i)
    /\ DOMAIN mem = {reqs[i].key : i \in Writers}
    /\ \A i \in Writers : reqs[i].up.full
    /\ \A i \in Started :
          /\ reqs[i].pc = "fetching" => ~reqs[i].up.got
          /\ reqs[i].pc = "reading" => (reqs[i].up.got /\ ~reqs[i].up.full)

\* an entry made of a 200 response while another request for the key that
\* arrived before the write has the status 200 and still waits for the text
C13_Witness ==
    \E i \in Writers : \E j \in Started :
        /\ i # j
        /\ reqs[i].key = reqs[j].key
        /\ reqs[j].t0 <= reqs[i].tw /\ reqs[i].t0 <= reqs[j].t0
        /\ reqs[j].pc = "reading"
        /\ reqs[j].up.got /\ reqs[j].up.status = 200
        /\ reqs[i].up.status = 200
        /\ MadeOf(mem[reqs[i].key], i)
        /\ mem[reqs[i].key].body # reqs[i].up.text

\* the lookup of request i found an entry younger than its TTL
FreshAtLookup(i) == reqs[i].seen.has /\ AgeSeen(i) < 1000 * reqs[i].TTL

\* C14: a request has issued at most one upstream call at every point of its
\* life: none if its lookup found a fresh entry (or it ended before the
\* lookup) and, its query being well-formed, exactly one if the lookup missed
\* or found a stale entry; no outcome of the call (a non-2xx status, a
\* transport fault, an unparseable body) is followed by a second call of the
\* same request.
C14_AtMostOneUpstreamCall ==
    \A i \in Started :
        /\ reqs[i].calls \in {0, 1}
        /\ (reqs[i].looked /\ FreshAtLookup(i)) => reqs[i].calls = 0
        /\ (reqs[i].looked /\ ~FreshAtLookup(i) /\ WellFormed(reqs[i].query))
              => reqs[i].calls = 1
        /\ ~reqs[i].looked => reqs[i].calls = 0
        /\ reqs[i].up.got => reqs[i].calls = 1

\* one request ended by a transport fault and one by an unparseable 200 body,
\* each after a single call
C14_Witness ==
    \E i, j \in Done :
        /\ reqs[i].resp.outcome = "error" /\ ~reqs[i].up.got /\ reqs[i].calls = 1
        /\ reqs[j].resp.outcome = "error" /\ reqs[j].up.full /\ reqs[j].calls = 1

\* the entry a writer stored: its write instant with the status and body it
\* answered
Answered(j) == [ts |-> reqs[j].tw, status |-> reqs[j].resp.status, body |-> reqs[j].resp.body]

\* the writers of the key of request i
WritersOfKey(i) == {j \in Writers : reqs[j].key = reqs[i].key}

\* C15: a request served from upstream has stored, for its key, an entry with
\* exactly the status and body it answers, for success and failure statuses
\* alike (the key holds that entry until a write of another request for the
\* key that is not earlier); a request served from the cache answers exactly
\* the status and body of the entry it looked up, which are those the request
\* that wrote the entry answered.
C15_ResponseIsTheEntry ==
    \A i \in Done :
        /\ reqs[i].resp.outcome = "upstream"
              => /\ reqs[i].key \in DOMAIN mem
                 /\ \E j \in WritersOfKey(i) :
                        reqs[j].tw >= reqs[i].tw /\ mem[reqs[i].key] = Answered(j)
                 /\ WritersOfKey(i) = {i} => mem[reqs[i].key] = Answered(i)
        /\ reqs[i].resp.outcome = "cache"
              => /\ reqs[i].seen.has
                 /\ reqs[i].resp.status = reqs[i].seen.status
                 /\ reqs[i].resp.body = reqs[i].seen.body
                 /\ \E j \in WritersOfKey(i) :
                        /\ reqs[j].tw <= reqs[i].t0
                        /\ Answered(j) = [ts |-> reqs[i].seen.ts,
                                          status |-> reqs[i].seen.status,
                                          body |-> reqs[i].seen.body]

\* a 200 answered with the filtered body and stored, and a later request
\* answered that entry from the cache
C15_Witness ==
    \E i, j \in Done :
        /\ reqs[i].resp.outcome = "upstream"
        /\ reqs[i].resp.status = 200
        /\ reqs[i].resp.body # reqs[i].up.text
        /\ reqs[j].resp.outcome = "cache"
        /\ reqs[j].key = reqs[i].key
        /\ reqs[j].t0 > reqs[i].tw
        /\ reqs[j].resp.body = reqs[i].resp.body
        /\ mem[reqs[i].key] = Answered(i)

\* the upstream call of request i ends in this step with a 2xx status and a
\* body that is not JSON
EndsUnparseable(i) ==
    /\ reqs[i].pc = "reading" /\ reqs'[i].pc = "done"
    /\ reqs'[i].up.full
    /\ reqs'[i].up.status >= 200 /\ reqs'[i].up.status < 300
    /\ reqs'[i].up.text.kind = "raw"

\* C16: when upstream answers a 2xx status with a body that fails JSON
\* parsing, the request ends with status 500 and body {"error":"Proxy error"},
\* and the step writes nothing to the cache: no entry appears for the key and
\* an entry the key already has is left as it is.
C16_UnparseableSuccessIsErrorAndNotCached ==
    [][ \A i \in ReqIds :
          EndsUnparseable(i)
          => /\ reqs'[i].resp.outcome = "error"
             /\ reqs'[i].resp.status = 500
             /\ reqs'[i].resp.body
                  = JSONstringify(JObj(<<[k |-> "error", v |-> JStr("Proxy error")]>>))
             /\ mem' = mem ]_vars

\* a request found a stale entry, got an unparseable 200 and ended in the
\* error outcome, and the key still holds the entry of the earlier writer
C16_Witness ==
    \E i \in Writers : \E j \in Done :
        /\ reqs[j].key = reqs[i].key
        /\ reqs[j].seen.has
        /\ reqs[j].up.full /\ reqs[j].up.status = 200 /\ reqs[j].up.text.kind = "raw"
        /\ reqs[j].resp.outcome = "error" /\ reqs[j].resp.status = 500
        /\ mem[reqs[j].key] = Answered(i)

\* the keys whose entry this step creates or changes
Touched == {k \in DOMAIN mem' : k \notin DOMAIN mem \/ mem'[k] # mem[k]}

\* C17: no step removes an entry, and a step changes what a key holds only by
\* storing the whole entry (timestamp, status, body) of a request for that key
\* whose call ends in the step and whose lookup had found no entry or one at
\* least as old as its TTL.
C17_EntriesOnlyReplacedWhole ==
    [][ /\ DOMAIN mem \subseteq DOMAIN mem'
        /\ \A k \in Touched :
              \E i \in ReqIds :
                  /\ reqs[i].key = k
                  /\ Completes(i)
                  /\ ~FreshAtLookup(i)
                  /\ mem'[k] = OwnEntry(i, now) ]_vars

\* an entry found stale by a later request and replaced by that request's own
C17_Witness ==
    \E i, j \in Writers :
        /\ reqs[i].key = reqs[j].key
        /\ reqs[j].seen.has
        /\ reqs[j].seen.ts = reqs[i].tw
        /\ reqs[j].seen.status = 200
        /\ AgeSeen(j) >= 1000 * reqs[j].TTL
        /\ reqs[j].tw > reqs[i].tw
        /\ mem[reqs[j].key] = Answered(j)
        /\ mem[reqs[j].key].status = 404

\* request i has ended in one of the three outcomes, with what belongs to it
Ended(i) ==
    /\ reqs[i].pc = "done"
    /\ \/ reqs[i].resp.outcome = "cache" /\ reqs[i].calls = 0
       \/ reqs[i].resp.outcome = "upstream" /\ reqs[i].up.full
       \/ reqs[i].resp.outcome = "error" /\ reqs[i].resp.status = 500

\* C18: a request that has entered the handler is either waiting for its
\* upstream call (for the response or for its body text) or has ended in
\* exactly one of the outcomes served from cache, served from upstream and
\* error 500 (no fault leaves it anywhere else), and,
\* its upstream call ending at some time in a response or a transport fault,
\* every request that entered the handler ends.
C18_EveryRequestEnds ==
    /\ [](\A i \in Started : reqs[i].pc \in {"fetching", "reading"} \/ Ended(i))
    /\ \A i \in ReqIds : (reqs[i].pc # "idle") ~> Ended(i)

\* every request has ended: one by a fault of the body text after the status
\* was in, one served from upstream
C18_Witness ==
    /\ \A i \in ReqIds : Ended(i)
    /\ \E i \in ReqIds : reqs[i].resp.outcome = "error" /\ reqs[i].up.got /\ ~reqs[i].up.full
    /\ \E i \in ReqIds : reqs[i].resp.outcome = "upstream"

\* C19: ttl is no part of the key and no part of the entry. Requests for the
\* same resource and parameters get the same key whatever their ttl, and a
\* request sees the entry a request with another ttl stored before its lookup;
\* an entry holds a timestamp, a status and a body only; and a request that
\* finds an entry is served from it exactly when the entry's age is below its
\* own effective TTL, whatever the TTL of the request that wrote it.
C19_TtlNotInKeyNorEntry ==
    /\ \A i, j \in LookedUp :
          Resource(handler, reqs[i].query) = Resource(handler, reqs[j].query)
          => /\ reqs[i].key = reqs[j].key
             /\ (j \in Writers /\ reqs[j].tw < reqs[i].t0) => reqs[i].seen.has
    /\ \A k \in DOMAIN mem : DOMAIN mem[k] = {"ts", "status", "body"}
    /\ \A i \in Started :
          reqs[i].seen.has
          => (reqs[i].resp.outcome = "cache" <=> AgeSeen(i) < 1000 * reqs[i].TTL)

\* an entry written by a request with TTL 10 is served, at the age of 10
\* seconds, to a request for the same parameters with TTL 60
C19_Witness ==
    \E i \in Done : \E j \in Writers :
        /\ reqs[j].TTL = 10 /\ reqs[i].TTL = 60
        /\ reqs[i].key = reqs[j].key
        /\ reqs[i].seen.ts = reqs[j].tw
        /\ AgeSeen(i) = 10000
        /\ reqs[i].resp.outcome = "cache"
        /\ reqs[i].resp.body = reqs[j].resp.body

\* request i is served from the cache in this step
ServedFromCache(i) == Arrives(i) /\ reqs'[i].resp.outcome = "cache"

\* C20: the step in which a request is served from the cache leaves the whole
\* cache as it was: the entry it is served keeps its timestamp, status and
\* body, and no other key is touched, so the age of an entry is counted from
\* its write however often it is hit.
C20_HitLeavesCacheUnchanged ==
    [][ \A i \in ReqIds :
          ServedFromCache(i)
          => /\ mem' = mem
             /\ mem'[reqs'[i].key].ts = reqs'[i].seen.ts
             /\ mem'[reqs'[i].key].status = reqs'[i].resp.status
             /\ mem'[reqs'[i].key].body = reqs'[i].resp.body ]_vars

\* after a hit at the age of 9999 ms the entry still carries the instant of
\* its write
C20_Witness ==
    \E i \in Writers : \E j \in Done :
        /\ reqs[j].resp.outcome = "cache"
        /\ reqs[j].key = reqs[i].key
        /\ reqs[j].t0 = reqs[i].tw + 9999
        /\ mem[reqs[j].key] = Answered(i)
        /\ mem[reqs[j].key].ts < reqs[j].t0

====
